---- MODULE Spec2Model ----
(***************************************************************************)
(* A state-machine model of CookieTTS's WaveGlow coupling networks         *)
(* (WN, WN_2d in _4_mtw/waveglow/glow_ax.py) and of the loss collation of  *)
(* FESV_AELoss (_2_ttm/ExpFESV_AE/loss_function.py).                       *)
(*                                                                         *)
(* Tensors are modelled along the dimension the code's control logic is    *)
(* about.  For WN_2d that is the causal height (group) dimension: a tensor *)
(* [B, channels, H, T] is a sequence of H rows, with B = 1 and T = 1, and  *)
(* a block of n_channels channels is one integer (a tensor of 2*n_channels *)
(* channels is a row of pairs).  Floating point values are integers and    *)
(* tanh / sigmoid are saturating integer functions.                        *)
(***************************************************************************)
EXTENDS Integers, Sequences, FiniteSets, TLC

VARIABLES
  model,    \* the WN_2d module: its configuration and parameters
  sess,     \* the streaming sessions driving model, each with its queues
  active,   \* the sessions that are running
  lc,       \* a call of FESV_AELoss.colate_losses
  wn        \* a WN module and a call of its forward

vars == <<model, sess, active, lc, wn>>

(* ------------------------------ bounds -------------------------------- *)
MaxLayers == 2
MaxKernelH == 2
MaxDilationH == 2
MaxSteps == 3
MaxPairSteps == 2
MaxCallerQueue == 3
MaxH == 3
MaxWNLayers == 2
MaxKernelW == 4
MaxDilationW == 2
MaxT == 3
MaxB == 3
MaxCondLayers == 2

(* ------------------------- generic helpers ---------------------------- *)
None == [some |-> FALSE, v |-> <<>>]
Some(x) == [some |-> TRUE, v |-> x]

Min(a, b) == IF a < b THEN a ELSE b

Zeros(n) == [r \in 1..n |-> 0]

\* x[-n:] of Python: the last n elements, all of x when it has fewer
LastN(x, n) == IF Len(x) <= n THEN x ELSE SubSeq(x, Len(x) - n + 1, Len(x))

\* x[:n] of Python
FirstN(x, n) == IF Len(x) <= n THEN x ELSE SubSeq(x, 1, n)

RECURSIVE Flatten(_)
Flatten(ss) == IF ss = <<>> THEN <<>> ELSE Head(ss) \o Flatten(Tail(ss))

\* x + y (and x += y) over the height dimension, y of one row broadcasting
AddRows(x, y) ==
  [r \in 1..Len(x) |->
     x[r] + (IF Len(y) = 1 THEN y[1] ELSE IF r <= Len(y) THEN y[r] ELSE 0)]

(* ---------------------- WN_2d: the parameters ------------------------- *)
\* nn.Conv2d(1, n_channels, (1,1)) with weight norm
start_weight(self) == 1 + self.seed
start_bias(self) == self.seed

\* weight of in_layers[i] at height tap j for output half c (1: tanh half,
\* 2: sigmoid half)
in_weight(self, i, j, c) == 1 + ((self.seed + i + j + c) % 2)
in_bias(self, i, c) == (i + c) % 2

\* res_skip_layers[i]: its first n_channels outputs (c = 1) and the rest
res_skip_weight(self, i, c) == IF c = 1 THEN 1 ELSE 1 + ((self.seed + i) % 2)
res_skip_bias(self, i, c) == IF c = 1 THEN 0 ELSE i % 2

\* the conditioning stack's weights for the channel block of layer i
cond_weight(self, i, c) == 1 + ((i + c) % 2)

(* ---------------------- WN_2d: the primitives ------------------------- *)
Tanh(x) == IF x > 2 THEN 2 ELSE IF x < -2 THEN -2 ELSE x
Sigmoid(x) == IF x > 1 THEN 2 ELSE IF x < -1 THEN 0 ELSE x + 1

\* self.padding_h[i], i counted from 0 as in the code
padding_h(self, i) == (self.kernel_size_h - 1) * self.h_dilate[i + 1]

start(self, audio) ==
  [r \in 1..Len(audio) |-> start_weight(self) * audio[r] + start_bias(self)]

RECURSIVE tap_sum(_, _, _, _, _, _)
tap_sum(self, i, x, r, j, c) ==
  IF j >= self.kernel_size_h THEN 0
  ELSE in_weight(self, i, j, c) * x[r + j * self.h_dilate[i + 1]]
       + tap_sum(self, i, x, r, j + 1, c)

\* in_layers[i]: a convolution with no padding on the height dimension, of
\* kernel_size_h taps h_dilate[i] apart; one output row per full window
in_layer(self, i, x) ==
  [r \in 1..(Len(x) - padding_h(self, i)) |->
     << in_bias(self, i, 1) + tap_sum(self, i, x, r, 0, 1),
        in_bias(self, i, 2) + tap_sum(self, i, x, r, 0, 2) >>]

\* spec has one row, broadcast over the height of input_a
fused_add_tanh_sigmoid_multiply(input_a, spec) ==
  [r \in 1..Len(input_a) |->
     Tanh(input_a[r][1] + spec[1]) * Sigmoid(input_a[r][2] + spec[2])]

\* the conditioning stack followed by the slice of layer i
cond_slice(self, spect, i) ==
  << cond_weight(self, i, 1) * spect + i, cond_weight(self, i, 2) * spect - i >>

\* whether layer i splits its res-skip output into a residual and a skip
split_res_skip(self, i) == (~self.merge_res_skip) /\ (i < self.n_layers - 1)

\* res_skip_layers[i](acts) if the layers exist, else acts: rows of pairs
\* when the layer has 2*n_channels outputs, rows of integers otherwise
res_skip_acts(self, i, acts) ==
  IF ~self.res_skip THEN acts
  ELSE IF split_res_skip(self, i)
       THEN [r \in 1..Len(acts) |->
               << res_skip_weight(self, i, 1) * acts[r] + res_skip_bias(self, i, 1),
                  res_skip_weight(self, i, 2) * acts[r] + res_skip_bias(self, i, 2) >>]
       ELSE [r \in 1..Len(acts) |->
               res_skip_weight(self, i, 2) * acts[r] + res_skip_bias(self, i, 2)]

Half(x, c) == [r \in 1..Len(x) |-> x[r][c]]

end(self, output) ==
  [r \in 1..Len(output) |->
     << self.end_weight[1] * output[r] + self.end_bias[1],
        self.end_weight[2] * output[r] + self.end_bias[2] >>]

(* -------------------- WN_2d: the streaming state ---------------------- *)
causal_pad_bottom(self, i, audio) == audio \o Zeros(padding_h(self, i))

\* F.pad(audio, (0,0,self.padding_h[i],0))
causal_pad(self, i, audio) == Zeros(padding_h(self, i)) \o audio

queue_init_empty(self, i) == <<>>

\* audio.new_zeros(size=[B, n_channels, self.padding_h[i], T_group])
queue_init(self, i) == Zeros(padding_h(self, i))

queue_push_oldest(self, i, queue, audio) ==
  FirstN(queue \o audio, padding_h(self, i) + 1)

\* torch.cat((audio_queues[i], audio), dim=2)[:,:,-(self.padding_h[i]+1):]
queue_push(self, i, queue, audio) ==
  LastN(queue \o audio, padding_h(self, i) + 1)

queue_unchecked(self, i, audio_cpad) == TRUE

\* assert audio_cpad.shape[2] == (self.padding_h[i]+1)
queue_ok(self, i, audio_cpad) == Len(audio_cpad) = padding_h(self, i) + 1

\* (spect_queues is None) or any([x is None for x in spect_queues])
process_spect(spect_queues) ==
  (~spect_queues.some)
  \/ (\E x \in 1..Len(spect_queues.v) : ~spect_queues.v[x].some)

(* ------------------------- WN_2d.forward ------------------------------ *)
skip_sum_onto_initial(i, output, x) == AddRows(output, x)

\* lines 372-383: layer 0 assigns the accumulator, later layers add to it
skip_sum(i, output, x) == IF i = 0 THEN x ELSE AddRows(output, x)

\* a tensor of n_channels channels as rows of one block
blocks(x) == [r \in 1..Len(x) |-> << x[r] >>]

\* what one layer did: the branch taken, its res-skip output (rows of one
\* or two blocks of n_channels channels), the main path before and after
\* and the accumulator after
route(split, res_skip_out, audio_in, audio_out, output) ==
  [split |-> split, res_skip_acts |-> res_skip_out, audio_in |-> audio_in,
   audio_out |-> audio_out, output |-> output]

\* lines 341-348 of layer i: the conditioning slice, or the cached one
take_spec(self, i, st, spect) ==
  IF process_spect(st.spect_queues)
  THEN [st EXCEPT !.spec = cond_slice(self, spect, i)]
  ELSE IF ~st.spect_queues.v[i + 1].some
       THEN [st EXCEPT !.spect_queues =
                         Some([st.spect_queues.v EXCEPT ![i + 1] = Some(st.spec)])]
       ELSE [st EXCEPT !.spec = st.spect_queues.v[i + 1].v]

\* lines 350-358 of layer i: audio_cpad
take_window(self, i, st) ==
  LET aq == st.audio_queues
      queue == IF aq.some /\ aq.v[i + 1].some THEN aq.v[i + 1].v
               ELSE queue_init(self, i)
  IN IF ~aq.some THEN causal_pad(self, i, st.audio)
     ELSE queue_push(self, i, queue, st.audio)

\* lines 372-383 of layer i on its res-skip output rs
route_res_skip(self, i, st, rs) ==
  LET res_audio == AddRows(st.audio, Half(rs, 1))
      res_output == skip_sum(i, st.output, Half(rs, 2))
      all_output == skip_sum(i, st.output, rs)
  IN IF split_res_skip(self, i)
     THEN [st EXCEPT !.audio = res_audio,
                     !.output = res_output,
                     !.routes = Append(@, route(TRUE, rs, st.audio, res_audio,
                                                res_output))]
     ELSE [st EXCEPT !.output = all_output,
                     !.routes = Append(@, route(FALSE, blocks(rs), st.audio,
                                                st.audio, all_output))]

\* lines 358-383 of layer i, audio_cpad being the window taken
layer_on_window(self, i, st, spect, audio_cpad) ==
  LET st1 == take_spec(self, i, st, spect)
      st2 == IF st.audio_queues.some
             THEN [st1 EXCEPT !.audio_queues =
                                Some([st.audio_queues.v EXCEPT
                                        ![i + 1] = Some(audio_cpad)]),
                              !.ins = Append(@, st.audio)]
             ELSE [st1 EXCEPT !.ins = Append(@, st.audio)]
  IN IF st.audio_queues.some /\ ~queue_ok(self, i, audio_cpad)
     THEN [st2 EXCEPT !.err = "AssertionError"]
     ELSE IF Len(audio_cpad) <= padding_h(self, i)
     THEN [st2 EXCEPT !.wins = Append(@, Len(audio_cpad)), !.err = "RuntimeError"]
     ELSE route_res_skip(self, i,
            [st2 EXCEPT !.wins = Append(@, Len(audio_cpad))],
            res_skip_acts(self, i,
              fused_add_tanh_sigmoid_multiply(in_layer(self, i, audio_cpad),
                                              st1.spec)))

\* One iteration of "for i in range(self.n_layers)".  st holds the loop's
\* variables; wins and ins record, per layer, the height of the window
\* in_layers[i] was applied to and the main-path tensor the layer was
\* entered with, routes what the layer did with its res-skip output.
layer(self, i, st, spect) ==
  layer_on_window(self, i, st, spect, take_window(self, i, st))

RECURSIVE layers(_, _, _, _)
layers(self, i, st, spect) ==
  IF i >= self.n_layers \/ st.err # "none" THEN st
  ELSE layers(self, i + 1, layer(self, i, st, spect), spect)

\* the loop's variables when the layers are entered, a0 = self.start(audio)
loop_state(self, a0, audio_queues, spect_queues) ==
  [audio |-> a0,
   output |-> IF self.merge_res_skip THEN a0 ELSE Zeros(Len(a0)),
   audio_queues |-> audio_queues, spect_queues |-> spect_queues,
   spec |-> <<>>, err |-> "none", wins |-> <<>>, ins |-> <<>>,
   routes |-> <<>>]

\* lines 385-392, st being the loop's variables after the layers
forward_return(self, audio_queues, spect_queues, st) ==
  LET res == [err |-> st.err, items |-> <<>>, func_out |-> <<>>,
              audio_queues |-> st.audio_queues, spect_queues |-> st.spect_queues,
              cond_ran |-> process_spect(spect_queues),
              wins |-> st.wins, ins |-> st.ins, routes |-> st.routes]
  IN IF st.err # "none" THEN res
     ELSE IF (~audio_queues.some) /\ spect_queues.some
     THEN [res EXCEPT !.err = "AttributeError"]
     ELSE [res EXCEPT !.func_out = end(self, st.output),
                      !.items = <<"func_out">>
                                \o (IF audio_queues.some THEN <<"audio_queues">> ELSE <<>>)
                                \o (IF spect_queues.some THEN <<"spect_queues">> ELSE <<>>)]

\* What the call returns (items: the names of the returned values, in
\* order) or raises (err), and the caller's queue collections after the
\* call: they are lists the call mutates in place, also when it raises.
\* self.start, a convolution of kernel (1,1), refuses an audio of no rows
\* (a kernel larger than its input) before any layer is entered.
forward(self, audio, spect, audio_queues, spect_queues) ==
  IF Len(audio) = 0
  THEN [err |-> "RuntimeError", items |-> <<>>, func_out |-> <<>>,
        audio_queues |-> audio_queues, spect_queues |-> spect_queues,
        cond_ran |-> FALSE, wins |-> <<>>, ins |-> <<>>, routes |-> <<>>]
  ELSE forward_return(self, audio_queues, spect_queues,
         layers(self, 0,
                loop_state(self, start(self, audio), audio_queues, spect_queues),
                spect))

forward_touching_self(self) == [self EXCEPT !.end_weight = <<1, 1>>]

\* the module after a forward call: forward assigns no attribute of self
self_after_forward(self) == self

(* ------------------------------- WN ----------------------------------- *)
\* WN works on tensors [B, channels, T]: a tensor is a sequence over time
\* (B = 1), a block of n_channels channels one integer.

\* lines 118-122: the dilation of layer i; n_layers_dilations_w is None
\* (kind "none"), an integer <<d>> or a list
WN_dilation(self, i) ==
  IF self.n_layers_dilations_w.kind = "none" THEN 2 ^ i
  ELSE IF self.n_layers_dilations_w.kind = "int" THEN self.n_layers_dilations_w.v[1]
  ELSE self.n_layers_dilations_w.v[i + 1]

\* padding = int((kernel_size*dilation - dilation)/2)
WN_padding(self, i) ==
  (self.kernel_size * WN_dilation(self, i) - WN_dilation(self, i)) \div 2

\* the input of a convolution padded by p on each side
pad1d(x, p, padding_mode) ==
  IF padding_mode = "zeros" THEN Zeros(p) \o x \o Zeros(p)
  ELSE [t \in 1..p |-> x[1]] \o x \o [t \in 1..p |-> x[Len(x)]]

RECURSIVE conv_taps(_, _, _, _, _, _)
conv_taps(xp, t, j, kernel_size, dilation, c) ==
  IF j >= kernel_size THEN 0
  ELSE (1 + ((j + c) % 2)) * xp[t + j * dilation]
       + conv_taps(xp, t, j + 1, kernel_size, dilation, c)

\* nn.Conv1d(kernel_size, dilation=dilation, padding=padding): its output
\* has Len(x) + 2*padding - dilation*(kernel_size-1) time steps
conv1d(x, kernel_size, dilation, padding, padding_mode, c) ==
  LET xp == pad1d(x, padding, padding_mode)
  IN [t \in 1..(Len(xp) - dilation * (kernel_size - 1)) |->
        conv_taps(xp, t, 0, kernel_size, dilation, c)]

\* in_layers[i]: one convolution to 2*n_channels channels, or a depthwise
\* convolution followed by a pointwise one
WN_in_layer(self, i, audio) ==
  LET k == self.kernel_size
      d == WN_dilation(self, i)
      p == WN_padding(self, i)
      m == self.cond_padding_mode
  IN IF (~self.seperable_conv) \/ k = 1
     THEN LET a == conv1d(audio, k, d, p, m, 1)
              b == conv1d(audio, k, d, p, m, 2)
          IN [t \in 1..Len(a) |-> << a[t], b[t] >>]
     ELSE LET depthwise == conv1d(audio, k, d, p, m, 1)
          IN [t \in 1..Len(depthwise) |-> << depthwise[t], 2 * depthwise[t] + 1 >>]

\* self.start(audio)
WN_start(self, audio) == [t \in 1..Len(audio) |-> 2 * audio[t] + 1]

\* lines 157-165: the speaker embedding joined to spect, the cond_layers
WN_cond(self, spect, speaker_id) ==
  LET with_speaker ==
        IF self.speaker_embed_dim > 0 /\ speaker_id.some
        THEN [t \in 1..Len(spect) |-> spect[t] + speaker_id.v + 1]
        ELSE spect
  IN IF self.cond_layers > 0
     THEN [t \in 1..Len(with_speaker) |-> 2 * with_speaker[t] - 1]
     ELSE with_speaker

\* F.interpolate(cond, size=audio_size[2], mode='nearest')
WN_upsample_mels(cond, size) ==
  [t \in 1..size |-> cond[((t - 1) * Len(cond)) \div size + 1]]

\* spect[:, i*2*n_channels:(i+1)*2*n_channels, :]
WN_spec(spect, i) == [t \in 1..Len(spect) |-> << spect[t] + i, spect[t] - i >>]

\* the time length of x + y, or 0 when the lengths do not broadcast
BroadcastLen(lx, ly) ==
  IF lx = ly THEN lx ELSE IF lx = 1 THEN ly ELSE IF ly = 1 THEN lx ELSE 0

At(x, t) == IF Len(x) = 1 THEN x[1] ELSE x[t]

\* fused_add_tanh_sigmoid_multiply on tensors [B, 2*n_channels, T]
WN_fused(input_a, input_b) ==
  [t \in 1..BroadcastLen(Len(input_a), Len(input_b)) |->
     Tanh(At(input_a, t)[1] + At(input_b, t)[1])
     * Sigmoid(At(input_a, t)[2] + At(input_b, t)[2])]

\* x + y with broadcasting over time
WN_add(x, y) ==
  [t \in 1..BroadcastLen(Len(x), Len(y)) |-> At(x, t) + At(y, t)]

WN_split(self, i) == (~self.merge_res_skip) /\ (i < self.n_layers - 1)

\* lines 184-195: layer 0 assigns output, later layers add to it
WN_skip_sum(i, output, x) == IF i = 0 THEN x ELSE WN_add(output, x)

\* line 182, the layer's channel count from lines 139-147
WN_res_skip_acts(self, i, acts) ==
  IF ~self.res_skip THEN acts
  ELSE IF WN_split(self, i)
       THEN [t \in 1..Len(acts) |-> << acts[t] + i, 2 * acts[t] + 1 >>]
       ELSE [t \in 1..Len(acts) |-> 2 * acts[t] + 1]

\* lines 184-195 of layer i on its res-skip output rs
WN_route_res_skip(self, i, st, rs) ==
  LET res_audio == WN_add(st.audio, Half(rs, 1))
      res_output == WN_skip_sum(i, st.output, Half(rs, 2))
      all_output == WN_skip_sum(i, st.output, rs)
  IN IF WN_split(self, i)
     THEN IF BroadcastLen(Len(st.audio), Len(rs)) = 0
               \/ (i > 0 /\ BroadcastLen(Len(st.output), Len(rs)) = 0)
          THEN [st EXCEPT !.err = "RuntimeError"]
          ELSE [st EXCEPT !.audio = res_audio,
                          !.output = res_output,
                          !.routes = Append(@, route(TRUE, rs, st.audio,
                                                     res_audio, res_output))]
     ELSE IF i > 0 /\ BroadcastLen(Len(st.output), Len(rs)) = 0
          THEN [st EXCEPT !.err = "RuntimeError"]
          ELSE [st EXCEPT !.output = all_output,
                          !.routes = Append(@, route(FALSE, blocks(rs), st.audio,
                                                     st.audio, all_output))]

\* lines 177-195 of layer i, conv being self.in_layers[i](audio) and spec
\* the layer's slice of the conditioning
WN_layer_on(self, i, st, conv, spec) ==
  IF BroadcastLen(Len(conv), Len(spec)) = 0
  THEN [st EXCEPT !.convs = Append(@, << Len(st.audio), Len(conv) >>),
                  !.err = "RuntimeError"]
  ELSE WN_route_res_skip(self, i,
         [st EXCEPT !.convs = Append(@, << Len(st.audio), Len(conv) >>)],
         WN_res_skip_acts(self, i, WN_fused(conv, spec)))

\* one iteration of the loop of lines 171-195; convs records the time
\* lengths in_layers[i] was given and gave, routes what each layer did with
\* its res-skip output
WN_layer(self, i, st, spect) ==
  WN_layer_on(self, i, st, WN_in_layer(self, i, st.audio), WN_spec(spect, i))

RECURSIVE WN_layers(_, _, _, _)
WN_layers(self, i, st, spect) ==
  IF i >= self.n_layers \/ st.err # "none" THEN st
  ELSE WN_layers(self, i + 1, WN_layer(self, i, st, spect), spect)

\* self.end(output).chunk(2, 1)
WN_end(self, output) ==
  << [t \in 1..Len(output) |-> self.end_weight[1] * output[t] + self.end_bias[1]],
     [t \in 1..Len(output) |-> self.end_weight[2] * output[t] + self.end_bias[2]] >>

\* line 197, st being the loop's variables after the layers
WN_return(self, lens, st) ==
  IF st.err # "none"
  THEN [err |-> st.err, out |-> <<>>, convs |-> st.convs,
        routes |-> st.routes, lens |-> lens]
  ELSE [err |-> "none", out |-> WN_end(self, st.output), convs |-> st.convs,
        routes |-> st.routes, lens |-> lens]

\* lines 167-197, a0 being self.start(audio), cond the conditioning after
\* the cond_layers and s0 the conditioning as it enters the layers
WN_forward_on(self, a0, cond, s0) ==
  IF (~self.upsample_first) /\ Len(a0) # Len(s0)
  THEN [err |-> "AssertionError", out |-> <<>>, convs |-> <<>>,
        routes |-> <<>>, lens |-> << Len(a0), Len(s0) >>]
  ELSE WN_return(self, << Len(a0), Len(s0) >>,
         WN_layers(self, 0,
                   [audio |-> a0, output |-> <<>>, err |-> "none",
                    convs |-> <<>>, routes |-> <<>>],
                   s0))

\* lines 167-168: the conditioning as it enters the layers
WN_entering(self, a0, cond) ==
  IF ~self.upsample_first THEN WN_upsample_mels(cond, Len(a0)) ELSE cond

\* lens: the time lengths of the audio and of the conditioning when the
\* layers are entered
WN_forward(self, audio, spect, speaker_id) ==
  WN_forward_on(self, WN_start(self, audio),
                WN_cond(self, spect, speaker_id),
                WN_entering(self, WN_start(self, audio),
                            WN_cond(self, spect, speaker_id)))

end_not_zeroed == <<1, 1>>

\* end.weight.data.zero_() ; end.bias.data.zero_()
end_zeroed == <<0, 0>>

DilationOptions(n) ==
  { [kind |-> "none", v |-> <<>>] }
  \cup { [kind |-> "int", v |-> <<d>>] : d \in 1..MaxDilationW }
  \cup { [kind |-> "list", v |-> l] : l \in [1..n -> 1..MaxDilationW] }

WNOptions ==
  UNION { { [n_layers |-> n, kernel_size |-> k, n_layers_dilations_w |-> d,
             seperable_conv |-> sep, cond_padding_mode |-> pm,
             merge_res_skip |-> m, res_skip |-> rs, upsample_first |-> uf,
             cond_layers |-> cl, speaker_embed_dim |-> cl,
             end_weight |-> end_zeroed, end_bias |-> end_zeroed] :
             k \in 1..MaxKernelW, d \in DilationOptions(n),
             sep \in BOOLEAN, pm \in {"zeros", "replicate"},
             m \in BOOLEAN, rs \in BOOLEAN, uf \in BOOLEAN, cl \in {0, 1} }
          : n \in 1..MaxWNLayers }

\* WN.__init__ on the options that pass its assertions (separable
\* convolutions are built with replicate padding, plain ones with zeros)
WNModules ==
  { self \in WNOptions :
      /\ self.kernel_size % 2 = 1
      /\ (self.res_skip \/ self.merge_res_skip) \/ self.n_layers = 1
      /\ self.seperable_conv <=> (self.cond_padding_mode = "replicate") }

Audios == UNION { { [t \in 1..len |-> t], [t \in 1..len |-> 0 - 1] } : len \in 1..MaxT }
Spects == { [t \in 1..len |-> 1] : len \in 1..MaxT }
SpeakerIds == { None, Some(1) }

\* a forward call on the constructed module
WNForward ==
  /\ wn.pc = "constructed"
  /\ \E audio \in Audios, spect \in Spects, speaker_id \in SpeakerIds :
       LET r == WN_forward(wn.self, audio, spect, speaker_id)
       IN wn' = [wn EXCEPT !.pc = IF r.err = "none" THEN "returned" ELSE "raised",
                           !.audio = audio, !.spect = spect,
                           !.speaker_id = speaker_id,
                           !.err = r.err, !.out = r.out, !.convs = r.convs,
                           !.routes = r.routes, !.lens = r.lens]
  /\ UNCHANGED <<model, sess, active, lc>>

(* --------------------- WN.__init__, WN_2d.__init__ -------------------- *)
\* the names given as cond_activation_func, and str.lower() on them
ActivationNames ==
  {"none", "lrelu", "relu", "tanh", "sigmoid", "ReLU", "Tanh", "swish", ""}

lower(name) ==
  IF name = "ReLU" THEN "relu" ELSE IF name = "Tanh" THEN "tanh" ELSE name

\* negative_slope: left at None, 0.0, or a positive slope
NegativeSlopes == { None, Some(0), Some(1) }

\* Python truth of an optional number
truthy(x) == x.some /\ x.v # 0

\* lines 102-115 and 258-271: "none" when the name is accepted, else the
\* exception raised
check_cond_activation_func(cond_activation_func, negative_slope) ==
  LET name == lower(cond_activation_func)
  IN IF name = "none" THEN "none"
     ELSE IF name = "lrelu" THEN "none"
     ELSE IF name = "relu"
          THEN (IF truthy(negative_slope) THEN "none" ELSE "AssertionError")
     ELSE IF name = "tanh" THEN "none"
     ELSE IF name = "sigmoid" THEN "none"
     ELSE "NotImplementedError"

\* lines 85 and 241: "if cond_layers:" guards the building of the
\* conditioning stack and the validation of the activation's name with it
cond_stack_built(o) == o.cond_layers # 0

\* the assertions of lines 53-66 (WN) and 209-223 (WN_2d), in order
init_assertions(o) ==
  /\ o.kernel_size_w % 2 = 1
  /\ o.n_channels % 2 = 0
  /\ IF o.cls = "WN"
     THEN (o.res_skip \/ o.merge_res_skip) \/ o.n_layers = 1
     ELSE o.res_skip \/ o.merge_res_skip
  /\ ~o.rezero

\* the constructor on options o: the exception it raises ("none" when the
\* module is built) and whether the module has a cond_activation_func
init(o) ==
  LET name == lower(o.cond_activation_func)
      act == check_cond_activation_func(o.cond_activation_func, o.negative_slope)
  IN IF ~init_assertions(o)
     THEN [err |-> "AssertionError", has_cond_activation_func |-> FALSE]
     ELSE IF cond_stack_built(o) /\ act # "none"
     THEN [err |-> act, has_cond_activation_func |-> FALSE]
     ELSE [err |-> "none",
           has_cond_activation_func |-> cond_stack_built(o) /\ name # "none"]

InitOptions ==
  [cls : {"WN", "WN_2d"},
   n_layers : 1..MaxWNLayers, kernel_size_w : 1..MaxKernelW,
   n_channels : {2, 3}, res_skip : BOOLEAN, merge_res_skip : BOOLEAN,
   rezero : BOOLEAN, cond_layers : 0..MaxCondLayers,
   cond_activation_func : ActivationNames, negative_slope : NegativeSlopes]

\* the constructor runs on the options
Construct ==
  /\ wn.pc = "new"
  /\ LET r == init(wn.options)
     IN wn' = [wn EXCEPT !.pc = IF r.err = "none" THEN "constructed" ELSE "raised",
                         !.err = r.err,
                         !.has_cond_activation_func = r.has_cond_activation_func]
  /\ UNCHANGED <<model, sess, active, lc>>

\* the other components at rest
IdleCall == [pc |-> "idle"]
IdleWN == [pc |-> "idle"]

(* ------------------ FESV_AELoss.colate_losses ------------------------- *)
\* A dict is a function on its keys; its values are Python objects: a
\* number Some(x) or None.  loss_scalars and the instance attributes are
\* keyed by the component k their name f'{k}_weight' is built from.
Keys == {"a", "b", "loss"}
WeightedKeys == {"a", "b"}
Values == {2, 3}
Weights == {-1, 0, 2}
AttrWeights == {0, 3}

Dicts(K, V) == UNION { [D -> V] : D \in SUBSET K }

\* d.get(k, None) and getattr(self, k, None)
dict_get(d, k) == IF k \in DOMAIN d THEN Some(d[k]) ELSE None

\* lines 22-27: the weight of component k
resolve_loss_scale(attrs, loss_scalars, k) ==
  LET from_call == dict_get(loss_scalars, k)
      from_self == IF from_call.some THEN from_call ELSE dict_get(attrs, k)
  IN IF from_self.some THEN from_self.v ELSE 1

\* lines 28-32: one component added to the running total
accumulate(loss, v, loss_scale) ==
  IF loss_scale > 0
  THEN (IF loss.some THEN Some(loss.v + v * loss_scale) ELSE Some(v * loss_scale))
  ELSE loss

\* for k, v in loss_dict.items(), over the keys not yet visited
RECURSIVE colate_loop(_, _, _, _, _)
colate_loop(attrs, loss_dict, loss_scalars, todo, loss) ==
  IF todo = {} THEN loss
  ELSE LET k == CHOOSE x \in todo : TRUE
       IN colate_loop(attrs, loss_dict, loss_scalars, todo \ {k},
                      accumulate(loss, loss_dict[k].v,
                                 resolve_loss_scale(attrs, loss_scalars, k)))

store_loss_only(loss_dict, loss) == [k \in {"loss"} |-> loss]

\* loss_dict['loss'] = loss
store_loss(loss_dict, loss) ==
  [k \in DOMAIN loss_dict \cup {"loss"} |->
     IF k = "loss" THEN loss ELSE loss_dict[k]]

colate_losses(attrs, loss_dict, loss_scalars, loss) ==
  store_loss(loss_dict,
             colate_loop(attrs, loss_dict, loss_scalars, DOMAIN loss_dict, loss))

\* the calls: at least one component, any per-call weights and attribute
\* weights, the loss argument left at its default None or given
LossCalls ==
  { [pc |-> "called", attrs |-> at, given |-> ld, loss_dict |-> ld,
     loss_scalars |-> ls, loss0 |-> l0, ret |-> ld] :
     at \in Dicts(WeightedKeys, AttrWeights),
     ld \in Dicts(Keys, { Some(v) : v \in Values }) \ { <<>> },
     ls \in Dicts(WeightedKeys, Weights),
     l0 \in {None, Some(1)} }

\* colate_losses runs: it writes into the caller's loss_dict and returns it
Colate ==
  /\ lc.pc = "called"
  /\ LET out == colate_losses(lc.attrs, lc.loss_dict, lc.loss_scalars, lc.loss0)
     IN lc' = [lc EXCEPT !.pc = "returned", !.loss_dict = out, !.ret = out]
  /\ UNCHANGED <<model, sess, active, wn>>

(* --------------------- FESV_AELoss.forward ---------------------------- *)
\* gt and pred of a batch are modelled per batch position: the utterance's
\* audiopath, speaker_id_ext and mel_length, and its predicted mel value
\* (n_mel = 1, gt_mel = 0 and the prediction the same in every frame; the
\* postnet prediction is one closer to gt_mel).
AudioPaths == {"x.wav", "y.wav"}
SpeakerIdsExt == {0, 1}
MelLengths == {1, 2}
PredVals == {1, 2}

Utterances ==
  [audiopath : AudioPaths, speaker_id_ext : SpeakerIdsExt,
   mel_length : MelLengths, pred : PredVals]

\* the batches: B, n_mel, mel_T = gt['gt_mel'].shape with 1 <= B <= MaxB
Batches == UNION { [1..B -> Utterances] : B \in 1..MaxB }

RECURSIVE SumSeq(_)
SumSeq(xs) == IF xs = <<>> THEN 0 ELSE Head(xs) + SumSeq(Tail(xs))

\* tensor.mean() in integer arithmetic
Mean(xs) == SumSeq(xs) \div Len(xs)

\* d[k] = v
dict_set(d, k, v) == [x \in DOMAIN d \cup {k} |-> IF x = k THEN v ELSE d[x]]

\* lines 43-46, from batch position i on: an entry is made for an
\* audiopath the first time it is met (time.time() is the position's tick)
RECURSIVE new_entries(_, _, _)
new_entries(gt, i, file_losses) ==
  IF i > Len(gt) THEN file_losses
  ELSE new_entries(gt, i + 1,
         IF gt[i].audiopath \in DOMAIN file_losses THEN file_losses
         ELSE dict_set(file_losses, gt[i].audiopath,
                [k \in {"speaker_id_ext", "time"} |->
                   IF k = "time" THEN i ELSE gt[i].speaker_id_ext]))

\* nn.MSELoss(reduction='none') on the unmasked frames of position i: what
\* spec_SE.split(...) gives at index i
spec_SE(gt, i) == [t \in 1..gt[i].mel_length |-> gt[i].pred * gt[i].pred]

post_SE(gt, i) ==
  [t \in 1..gt[i].mel_length |-> (gt[i].pred - 1) * (gt[i].pred - 1)]

spec_MSE_skipped(file_losses, audiopath, value) == file_losses

\* file_losses[audiopath]['spec_MSE'] = losses[i].mean().item()
set_spec_MSE(file_losses, audiopath, value) ==
  dict_set(file_losses, audiopath,
           dict_set(file_losses[audiopath], "spec_MSE", value))

\* lines 69-71, from batch position i on
RECURSIVE record_spec_MSE(_, _, _)
record_spec_MSE(gt, i, file_losses) ==
  IF i > Len(gt) THEN file_losses
  ELSE record_spec_MSE(gt, i + 1,
         set_spec_MSE(file_losses, gt[i].audiopath, Mean(spec_SE(gt, i))))

\* lines 66-86: the four components (with n_mel = 1 the frame-mean
\* weighted absolute error is the squared error)
loss_components(gt) ==
  LET se == Flatten([i \in 1..Len(gt) |-> spec_SE(gt, i)])
      pe == Flatten([i \in 1..Len(gt) |-> post_SE(gt, i)])
  IN [k \in {"spec_MSE", "postnet_MSE", "spec_MFSE", "postnet_MFSE"} |->
        IF k \in {"spec_MSE", "spec_MFSE"} THEN Some(Mean(se)) ELSE Some(Mean(pe))]

\* FESV_AELoss.forward: returns loss_dict, file_losses (the instance has no
\* '*_weight' attribute)
FESV_AELoss_forward(gt, loss_scalars) ==
  [loss_dict |-> colate_losses(<<>>, loss_components(gt), loss_scalars, None),
   file_losses |-> record_spec_MSE(gt, 1, new_entries(gt, 1, <<>>))]

\* the per-call weights: none given, or the postnet terms switched off
ForwardScalars ==
  { <<>>,
    [k \in {"spec_MSE", "postnet_MSE", "postnet_MFSE"} |->
       IF k = "spec_MSE" THEN 2 ELSE 0] }

ForwardCalls ==
  { [pc |-> "called", gt |-> gt, loss_scalars |-> ls,
     loss_dict |-> <<>>, file_losses |-> <<>>] :
     gt \in Batches, ls \in ForwardScalars }

\* forward runs on the batch
LossForward ==
  /\ lc.pc = "called"
  /\ LET r == FESV_AELoss_forward(lc.gt, lc.loss_scalars)
     IN lc' = [lc EXCEPT !.pc = "returned", !.loss_dict = r.loss_dict,
                         !.file_losses = r.file_losses]
  /\ UNCHANGED <<model, sess, active, wn>>

(* ----------------------- models and sessions --------------------------- *)
InputVals == {-1, 1}
SpectVals == {0, 1}

\* The parameters as the constructor leaves them (end zeroed) and as a
\* trained checkpoint has them (the optimizer is outside this code).
ParamSets ==
  { [seed |-> 0, end_weight |-> <<0, 0>>], [seed |-> 1, end_weight |-> <<1, 2>>] }

\* WN_2d.__init__ with n_layers_dilations_h a list (an integer is
\* broadcast to the list of n_layers equal entries)
Models ==
  UNION { { [n_layers |-> n, kernel_size_h |-> k, h_dilate |-> d,
             merge_res_skip |-> m, res_skip |-> rs, seed |-> ps.seed,
             end_weight |-> ps.end_weight, end_bias |-> <<0, 0>>] :
             k \in 1..MaxKernelH, d \in [1..n -> 1..MaxDilationH],
             m \in BOOLEAN, rs \in BOOLEAN, ps \in ParamSets }
          : n \in 1..MaxLayers }

\* WN_2d.__init__ asserts res_skip or merge_res_skip
ValidModels == { m \in Models : m.res_skip \/ m.merge_res_skip }

\* trained models with res-skip layers
TrainedModels == { m \in ValidModels : m.res_skip /\ m.seed = 1 }

\* [None]*n_layers
EmptySlots(self) == Some([i \in 1..self.n_layers |-> None])

\* spect_queues as a finished session leaves them: every slice cached
CachedSlots(self, spect) ==
  Some([i \in 1..self.n_layers |-> Some(cond_slice(self, spect, i - 1))])

\* caller-built audio_queues: every slot a queue of len rows
BuiltSlots(self, len) ==
  Some([i \in 1..self.n_layers |-> Some([r \in 1..len |-> 1])])

Session(self, aq, sq, spect, heights, vals, maxcalls) ==
  [audio_queues |-> aq, spect_queues |-> sq, spect |-> spect,
   aq0 |-> aq, sq0 |-> sq, self0 |-> self,
   heights |-> heights, vals |-> vals, maxcalls |-> maxcalls,
   fed |-> <<>>, outs |-> <<>>, ins |-> <<>>, wins |-> <<>>,
   items |-> <<>>, status |-> "ok", cond_runs |-> 0, routes |-> <<>>,
   aq_before |-> aq]

Slices(heights, vals) == UNION { [1..h -> vals] : h \in heights }

\* One forward call of session s: the driver passes the session's queue
\* collections and the next slice, and keeps what the call returns
\* (aq_before: the queues as they were passed to the last call).
Step(s) ==
  /\ s \in active
  /\ sess[s].status = "ok"
  /\ Len(sess[s].fed) < sess[s].maxcalls
  /\ \E audio \in Slices(sess[s].heights, sess[s].vals) :
       LET r == forward(model, audio, sess[s].spect,
                        sess[s].audio_queues, sess[s].spect_queues)
       IN sess' = [sess EXCEPT ![s] =
                     [@ EXCEPT !.aq_before = sess[s].audio_queues,
                               !.audio_queues = r.audio_queues,
                               !.spect_queues = r.spect_queues,
                               !.fed = Append(@, audio),
                               !.outs = IF r.err = "none" THEN Append(@, r.func_out)
                                        ELSE @,
                               !.ins = Append(@, r.ins),
                               !.wins = r.wins,
                               !.routes = r.routes,
                               !.items = r.items,
                               !.status = IF r.err = "none" THEN "ok" ELSE r.err,
                               !.cond_runs = IF r.cond_ran THEN @ + 1 ELSE @]]
  /\ model' = self_after_forward(model)
  /\ UNCHANGED <<active, lc, wn>>

\* A streaming session: audio_queues = [None]*n_layers, spect_queues not
\* passed or [None]*n_layers, one row per call.
StreamSessions(self) ==
  { Session(self, EmptySlots(self), sq, c, {1}, InputVals, MaxSteps) :
      sq \in {None, EmptySlots(self)}, c \in SpectVals }

Init ==
  /\ model \in ValidModels
  /\ active = {1}
  /\ \E s1 \in StreamSessions(model) :
       sess = [s \in {1, 2} |-> s1]
  /\ lc = IdleCall
  /\ wn = IdleWN

Next == \E s \in {1, 2} : Step(s)

Spec == Init /\ [][Next]_vars

(* ------------- callers that build the streaming state ----------------- *)
\* Any combination of audio_queues / spect_queues a caller can pass: not
\* passed, [None]*n_layers, or built by the caller; slices of any height;
\* a first call and a second one on the state the first returned.
CallerSessions(self) ==
  { Session(self, aq, sq, 1, 0..MaxH, {1}, 2) :
      aq \in {None, EmptySlots(self)}
             \cup { BuiltSlots(self, len) : len \in 0..MaxCallerQueue },
      sq \in {None, EmptySlots(self), CachedSlots(self, 1)} }

InitCaller ==
  /\ model \in TrainedModels
  /\ active = {1}
  /\ \E s1 \in CallerSessions(model) :
       sess = [s \in {1, 2} |-> s1]
  /\ lc = IdleCall
  /\ wn = IdleWN

SpecCaller == InitCaller /\ [][Next]_vars

(* ------------------ two sessions sharing one model -------------------- *)
\* Two drivers, each with its own queue collections and its own
\* conditioning, calling forward on the same module in any order.
PairSession(self, spect, sq) ==
  Session(self, EmptySlots(self), sq, spect, {1}, InputVals, MaxPairSteps)

InitPair ==
  /\ model \in TrainedModels
  /\ active = {1, 2}
  /\ sess = [s \in {1, 2} |-> IF s = 1 THEN PairSession(model, 0, None)
                                ELSE PairSession(model, 1, EmptySlots(model))]
  /\ lc = IdleCall
  /\ wn = IdleWN

SpecPair == InitPair /\ [][Next]_vars

(* --------------------- the loss collation alone ----------------------- *)
RestModel == CHOOSE m \in TrainedModels : TRUE
RestSessions == [s \in {1, 2} |-> PairSession(RestModel, 0, None)]

InitLoss ==
  /\ model = RestModel
  /\ sess = RestSessions
  /\ active = {}
  /\ lc \in LossCalls
  /\ wn = IdleWN

SpecLoss == InitLoss /\ [][Colate]_vars

(* ------------------- the loss's forward alone ------------------------- *)
InitForward ==
  /\ model = RestModel
  /\ sess = RestSessions
  /\ active = {}
  /\ lc \in ForwardCalls
  /\ wn = IdleWN

SpecForward == InitForward /\ [][LossForward]_vars

(* ----------------------------- WN alone ------------------------------- *)
InitWN ==
  /\ model = RestModel
  /\ sess = RestSessions
  /\ active = {}
  /\ lc = IdleCall
  /\ \E self \in WNModules :
       wn = [pc |-> "constructed", self |-> self, audio |-> <<>>, spect |-> <<>>,
             speaker_id |-> None, err |-> "none", out |-> <<>>, convs |-> <<>>,
             routes |-> <<>>, lens |-> <<>>]

SpecWN == InitWN /\ [][WNForward]_vars

(* ------------------------ the constructors ---------------------------- *)
InitConstruct ==
  /\ model = RestModel
  /\ sess = RestSessions
  /\ active = {}
  /\ lc = IdleCall
  /\ \E o \in InitOptions :
       wn = [pc |-> "new", options |-> o, err |-> "none",
             has_cond_activation_func |-> FALSE]

SpecConstruct == InitConstruct /\ [][Construct]_vars

(* ------------- WN and WN_2d of one configuration ---------------------- *)
\* A WN_2d module and a WN module built with the same n_layers,
\* merge_res_skip and res_skip, each making forward calls: the WN_2d one
\* in one batch-mode call on a slice of any height or in a streaming
\* session of one row per call.
RoutingSessions(self) ==
  { Session(self, None, None, 1, 1..MaxH, {1}, 1),
    Session(self, EmptySlots(self), None, 1, {1}, InputVals, MaxPairSteps) }

\* the trained WN_2d modules with h_dilate = 1 at every layer
RoutingModels ==
  { x \in ValidModels : x.seed = 1 /\ \A i \in 1..x.n_layers : x.h_dilate[i] = 1 }

\* the WN modules with plain convolutions, the default dilations, no
\* conditioning layers and upsample_first unset
RoutingWNs ==
  { x \in WNModules :
      /\ x.n_layers_dilations_w.kind = "none"
      /\ ~x.seperable_conv /\ ~x.upsample_first /\ x.cond_layers = 0 }

InitRouting ==
  /\ model \in RoutingModels
  /\ \E self \in RoutingWNs :
       /\ self.n_layers = model.n_layers
       /\ self.merge_res_skip = model.merge_res_skip
       /\ self.res_skip = model.res_skip
       /\ wn = [pc |-> "constructed", self |-> self, audio |-> <<>>,
                spect |-> <<>>, speaker_id |-> None, err |-> "none",
                out |-> <<>>, convs |-> <<>>, routes |-> <<>>, lens |-> <<>>]
  /\ active = {1}
  /\ \E s1 \in RoutingSessions(model) : sess = [s \in {1, 2} |-> s1]
  /\ lc = IdleCall

NextRouting == Step(1) \/ WNForward

SpecRouting == InitRouting /\ [][NextRouting]_vars

(* ------------------------------ claims -------------------------------- *)
\* session s was started with every queue slot empty and is fed one row
\* per call
Streaming(s) ==
  /\ sess[s].aq0 = EmptySlots(sess[s].self0)
  /\ sess[s].sq0 \in {None, EmptySlots(sess[s].self0)}
  /\ \A k \in 1..Len(sess[s].fed) : Len(sess[s].fed[k]) = 1

\* one batch-mode call (no queues) on all the rows the session was fed
BatchOut(s) ==
  forward(sess[s].self0, Flatten(sess[s].fed), sess[s].spect, None, None)

\* C1: feeding the rows one per call from audio_queues = [None]*n_layers,
\* threading the returned queues, yields at call k the output row that one
\* batch-mode call on all the rows yields at row k.
C1_StreamingEqualsBatch ==
  \A s \in active :
    (Streaming(s) /\ sess[s].fed # <<>>) =>
      LET batch == BatchOut(s)
      IN /\ sess[s].status = "ok"
         /\ batch.err = "none"
         /\ Len(sess[s].outs) = Len(sess[s].fed)
         /\ Len(batch.func_out) = Len(sess[s].fed)
         /\ \A k \in 1..Len(sess[s].fed) :
              sess[s].outs[k] = << batch.func_out[k] >>

\* a session of MaxSteps rows through two layers with causal context, whose
\* output rows are not all the same
C1_Witness ==
  \E s \in active :
    /\ Streaming(s) /\ Len(sess[s].fed) = MaxSteps
    /\ model.n_layers >= 2 /\ model.kernel_size_h >= 2
    /\ ~model.merge_res_skip
    /\ model.h_dilate[1] # model.h_dilate[2]
    /\ sess[s].outs[1] # sess[s].outs[MaxSteps]
    /\ sess[s].outs[1] # sess[s].outs[2]

\* C2: after step k of a streaming session, audio_queues[i] holds
\* padding_h[i]+1 rows of which the last min(k+1, padding_h[i]+1) are the
\* most recent main-path inputs of layer i in arrival order and the others
\* are the initial zero rows (the oldest row is the one dropped).
C2_QueueHoldsRecentRows ==
  \A s \in active :
    (Streaming(s) /\ sess[s].fed # <<>> /\ sess[s].status = "ok") =>
      \A i \in 0..(model.n_layers - 1) :
        LET q == sess[s].audio_queues.v[i + 1]
            pad == padding_h(model, i)
            k == Len(sess[s].fed) - 1
            valid == Min(k + 1, pad + 1)
        IN /\ q.some
           /\ Len(q.v) = pad + 1
           /\ \A m \in 1..(pad + 1) :
                q.v[m] = IF m > pad + 1 - valid
                         THEN sess[s].ins[(k + 1) - (pad + 1 - m)][i + 1][1]
                         ELSE 0

\* a full window that has already dropped a real row which differs from
\* the row that is now the oldest
C2_Witness ==
  \E s \in active : \E i \in 0..(model.n_layers - 1) :
    /\ Streaming(s) /\ sess[s].status = "ok"
    /\ padding_h(model, i) >= 1
    /\ Len(sess[s].fed) = padding_h(model, i) + 2
    /\ sess[s].ins[1][i + 1] # sess[s].ins[2][i + 1]

\* C3: in a streaming session whose spect_queues slots start empty, after
\* the first call every slot holds its layer's conditioning slice and the
\* conditioning stack has run once in the whole session.
C3_ConditioningComputedOnce ==
  \A s \in active :
    (sess[s].sq0 = EmptySlots(model) /\ sess[s].outs # <<>>) =>
      /\ \A i \in 0..(model.n_layers - 1) :
           sess[s].spect_queues.v[i + 1] = Some(cond_slice(model, sess[s].spect, i))
      /\ sess[s].cond_runs = 1

\* C4: whatever streaming state is passed, the call returns the output and
\* each collection that was passed.
C4_ReturnsOutputAndState ==
  \A s \in active :
    (/\ sess[s].fed # <<>>
     /\ sess[s].aq0 \in {None, EmptySlots(model)}
     /\ \A k \in 1..Len(sess[s].fed) : Len(sess[s].fed[k]) = 1) =>
      /\ sess[s].status = "ok"
      /\ sess[s].items =
           <<"func_out">>
           \o (IF sess[s].aq0.some THEN <<"audio_queues">> ELSE <<>>)
           \o (IF sess[s].sq0.some THEN <<"spect_queues">> ELSE <<>>)

\* C5: in streaming mode in_layers[i] is applied to windows of exactly
\* padding_h[i]+1 rows only; a window of another height makes the call
\* fail with an assertion at that layer, before its convolution, and the
\* call returns nothing.  (A call on a slice of no rows fails in
\* self.start and forms no window.)
C5_WindowCheckedBeforeConv ==
  \A s \in active :
    (/\ sess[s].aq0.some /\ sess[s].fed # <<>>
     /\ sess[s].fed[Len(sess[s].fed)] # <<>>) =>
      LET done == Len(sess[s].wins)
          q(i) == sess[s].audio_queues.v[i + 1]
      IN /\ \A i \in 0..(done - 1) :
              /\ sess[s].wins[i + 1] = padding_h(model, i) + 1
              /\ q(i).some /\ Len(q(i).v) = padding_h(model, i) + 1
         /\ sess[s].status \in {"ok", "AssertionError"}
         /\ (sess[s].status = "ok") <=> (done = model.n_layers)
         /\ (sess[s].status = "AssertionError") =>
              /\ q(done).some /\ Len(q(done).v) # padding_h(model, done) + 1
              /\ sess[s].items = <<>>
              /\ Len(sess[s].outs) = Len(sess[s].fed) - 1

\* the assertion fires at the second layer, after the first layer's window
\* was accepted and convolved
C5_Witness ==
  \E s \in active :
    /\ sess[s].aq0.some
    /\ sess[s].status = "AssertionError"
    /\ Len(sess[s].wins) = 1

\* what session s gets when it runs alone: its calls replayed from its
\* initial queue collections
RECURSIVE run_alone(_, _, _, _, _)
run_alone(self, spect, aq, sq, feds) ==
  IF feds = <<>> THEN [audio_queues |-> aq, spect_queues |-> sq, outs |-> <<>>]
  ELSE LET r == forward(self, Head(feds), spect, aq, sq)
           rest == run_alone(self, spect, r.audio_queues, r.spect_queues, Tail(feds))
       IN [rest EXCEPT !.outs = <<r.func_out>> \o @]

RECURSIVE SumOver(_, _)
SumOver(f, S) ==
  IF S = {} THEN 0
  ELSE LET k == CHOOSE x \in S : TRUE IN f[k] + SumOver(f, S \ {k})

\* the weight the claim gives component k
ClaimedWeight(k) ==
  IF k \in DOMAIN lc.loss_scalars THEN lc.loss_scalars[k]
  ELSE IF k \in DOMAIN lc.attrs THEN lc.attrs[k]
  ELSE 1

ClaimedTotal ==
  SumOver([k \in DOMAIN lc.given |-> ClaimedWeight(k) * lc.given[k].v],
          { k \in DOMAIN lc.given : ClaimedWeight(k) > 0 })

\* C7: colate_losses(loss_dict, loss_scalars) sets 'loss' to the sum of
\* weight*value over the components whose resolved weight is positive
\* (the weight from loss_scalars, else the attribute, else 1.0).
C7_LossIsWeightedSum ==
  (lc.pc = "returned" /\ lc.loss0 = None) =>
    lc.ret["loss"] = Some(ClaimedTotal)

\* C7, where some component has a positive weight: the code agrees
C7_WeightedSumWhenSomePositive ==
  (/\ lc.pc = "returned" /\ lc.loss0 = None
   /\ \E k \in DOMAIN lc.given : ClaimedWeight(k) > 0) =>
    lc.ret["loss"] = Some(ClaimedTotal)

\* C8: every input component's entry is unchanged in the returned mapping,
\* also when its weight is zero or negative; 'loss' is the only key added
\* or written.
C8_ComponentsKept ==
  (lc.pc = "returned") =>
    /\ DOMAIN lc.ret = DOMAIN lc.given \cup {"loss"}
    /\ \A k \in DOMAIN lc.given \ {"loss"} : lc.ret[k] = lc.given[k]
    /\ lc.loss_dict = lc.ret

\* a returned mapping with one component excluded by a zero weight, one by
\* a negative weight, and so no total
C8_Witness ==
  /\ lc.pc = "returned"
  /\ DOMAIN lc.given = {"a", "b"}
  /\ ClaimedWeight("a") = 0 /\ ClaimedWeight("b") < 0
  /\ lc.ret["a"] = Some(2) /\ lc.ret["b"] = Some(3)

\* C9: with the end projection as the constructor leaves it, every forward
\* call that returns gives the pair (zeros, zeros).
C9_ZeroEndGivesZeros ==
  (wn.pc = "returned") =>
    /\ Len(wn.out) = 2
    /\ Len(wn.out[1]) = Len(wn.out[2])
    /\ Len(wn.out[1]) >= 1
    /\ \A c \in 1..2 : \A t \in 1..Len(wn.out[c]) : wn.out[c][t] = 0

\* a returned call through two splitting layers with conditioning layers
\* and a speaker, on audio that is not constant
C9_Witness ==
  /\ wn.pc = "returned"
  /\ wn.self.n_layers >= 2 /\ ~wn.self.merge_res_skip
  /\ wn.self.cond_layers > 0 /\ wn.speaker_id.some
  /\ Len(wn.audio) = MaxT /\ wn.audio[1] # wn.audio[MaxT]
  /\ wn.self.kernel_size > 1

\* C10: every in-layer convolution of WN gives as many time steps as it
\* was given, and the output of forward has the audio's time length.
C10_LengthPreserved ==
  (wn.pc = "returned") =>
    /\ \A i \in 1..Len(wn.convs) : wn.convs[i][2] = wn.convs[i][1]
    /\ Len(wn.out[1]) = Len(wn.audio)
    /\ Len(wn.out[2]) = Len(wn.audio)

\* C10, the convolutions alone: whatever the call ends in, each in-layer
\* convolution kept the time length of its input
C10_ConvKeepsLength ==
  \A i \in 1..Len(wn.convs) : wn.convs[i][2] = wn.convs[i][1]

\* C10, on the calls whose conditioning enters the layers with the audio's
\* time length
C10_LengthPreservedWhenCondFits ==
  (wn.pc = "returned"
   /\ (wn.self.upsample_first => Len(wn.spect) = Len(wn.audio))) =>
    /\ Len(wn.out[1]) = Len(wn.audio)
    /\ Len(wn.out[2]) = Len(wn.audio)

\* the audiopaths of the batch of the call
BatchPaths == { lc.gt[i].audiopath : i \in 1..Len(lc.gt) }

\* C11: the file_losses map FESV_AELoss.forward returns has exactly one
\* entry per distinct audiopath of the batch, also when an audiopath is at
\* several batch positions, and every entry has a 'spec_MSE' value.
C11_OneEntryPerAudiopath ==
  (lc.pc = "returned") =>
    /\ DOMAIN lc.file_losses = BatchPaths
    /\ Cardinality(DOMAIN lc.file_losses) = Cardinality(BatchPaths)
    /\ \A p \in BatchPaths :
         /\ "spec_MSE" \in DOMAIN lc.file_losses[p]
         /\ \E i \in 1..Len(lc.gt) :
              /\ lc.gt[i].audiopath = p
              /\ lc.file_losses[p]["spec_MSE"] = Mean(spec_SE(lc.gt, i))

\* a returned batch of MaxB positions in which one audiopath is at two
\* positions with different errors and speakers, next to another audiopath
C11_Witness ==
  /\ lc.pc = "returned"
  /\ Len(lc.gt) = MaxB
  /\ Cardinality(BatchPaths) = 2
  /\ \E i, j \in 1..Len(lc.gt) :
       /\ i < j
       /\ lc.gt[i].audiopath = lc.gt[j].audiopath
       /\ lc.gt[i].pred # lc.gt[j].pred
       /\ lc.gt[i].speaker_id_ext # lc.gt[j].speaker_id_ext
       /\ lc.file_losses[lc.gt[i].audiopath]["spec_MSE"] = Mean(spec_SE(lc.gt, j))
       /\ lc.file_losses[lc.gt[i].audiopath]["speaker_id_ext"] = lc.gt[i].speaker_id_ext

\* the names the constructors accept
AcceptedNames == {"none", "lrelu", "relu", "tanh", "sigmoid"}

\* the options name no accepted activation, or 'relu' without a slope
BadActivation(o) ==
  \/ lower(o.cond_activation_func) \notin AcceptedNames
  \/ (lower(o.cond_activation_func) = "relu" /\ ~o.negative_slope.some)

\* C12: constructing WN or WN_2d fails whenever cond_activation_func is
\* not one of none|lrelu|relu|tanh|sigmoid and whenever it is 'relu' with
\* no negative_slope, whatever the other options are, the number of
\* conditioning layers included.
C12_BadActivationFailsConstruction ==
  (wn.pc # "new" /\ BadActivation(wn.options)) => wn.pc = "raised"

\* C12, where a conditioning stack is built (cond_layers >= 1): the code
\* agrees, with NotImplementedError for the name and AssertionError for
\* the missing slope when no earlier assertion failed
C12_BadActivationFailsWithCondLayers ==
  (wn.pc # "new" /\ BadActivation(wn.options) /\ wn.options.cond_layers >= 1) =>
    /\ wn.pc = "raised"
    /\ init_assertions(wn.options) =>
         wn.err = IF lower(wn.options.cond_activation_func) = "relu"
                  THEN "AssertionError" ELSE "NotImplementedError"

\* C13: WN.forward never gates a layer with a conditioning tensor whose
\* time length differs from the audio's: every call in which the two
\* lengths disagree when the layers are entered, with upsample_first set
\* or not, fails with an assertion.
C13_LengthMismatchAsserts ==
  (wn.pc \in {"returned", "raised"} /\ wn.lens[1] # wn.lens[2]) =>
    (wn.pc = "raised" /\ wn.err = "AssertionError")

\* C13, without upsample_first: the conditioning is interpolated to the
\* audio's length, the lengths agree at the layers and the assertion of
\* line 169 never fails
C13_UpsampledCondFits ==
  (wn.pc \in {"returned", "raised"} /\ ~wn.self.upsample_first) =>
    (wn.lens[1] = wn.lens[2] /\ wn.pc = "returned")

\* the split a layer i of n layers is to make
SplitExpected(n, merge_res_skip, i) == (~merge_res_skip) /\ (i < n - 1)

\* the part of layer i's res-skip output that is due to the accumulator
Contribution(r, n, merge_res_skip, i) ==
  Half(r[i + 1].res_skip_acts,
       IF SplitExpected(n, merge_res_skip, i) THEN 2 ELSE 1)

\* x + y in the module class cls
Plus(cls, x, y) == IF cls = "WN" THEN WN_add(x, y) ELSE AddRows(x, y)

\* the sum of the contributions of layers 0..i
RECURSIVE SkipTotal(_, _, _, _, _)
SkipTotal(r, n, merge_res_skip, i, cls) ==
  IF i = 0 THEN Contribution(r, n, merge_res_skip, 0)
  ELSE Plus(cls, SkipTotal(r, n, merge_res_skip, i - 1, cls),
            Contribution(r, n, merge_res_skip, i))

\* the routes r of a call through n layers follow the rule
RoutingOK(r, n, merge_res_skip, cls) ==
  /\ Len(r) = n
  /\ \A i \in 0..(n - 1) :
       LET x == r[i + 1]
           want == SplitExpected(n, merge_res_skip, i)
       IN /\ x.split = want
          /\ \A row \in 1..Len(x.res_skip_acts) :
               Len(x.res_skip_acts[row]) = IF want THEN 2 ELSE 1
          /\ x.audio_out = IF want THEN Plus(cls, x.audio_in, Half(x.res_skip_acts, 1))
                           ELSE x.audio_in
          /\ (i > 0) => (x.audio_in = r[i].audio_out)
          /\ x.output = SkipTotal(r, n, merge_res_skip, i, cls)

C14_WitnessMerged ==
  /\ wn.pc = "returned"
  /\ sess[1].fed # <<>> /\ sess[1].status = "ok" /\ ~sess[1].aq0.some
  /\ model.n_layers >= 2 /\ model.merge_res_skip
  /\ Len(sess[1].fed[1]) = MaxH

\* the rows audio_queues[i] held when the last call of session s reached
\* layer i: the queue passed in, or the zero rows of a slot passed as None
QueueBefore(s, i) ==
  IF sess[s].aq_before.v[i + 1].some THEN sess[s].aq_before.v[i + 1].v
  ELSE Zeros(padding_h(model, i))

\* the slice the last call of session s brought to layer i
SliceAt(s, i) == sess[s].ins[Len(sess[s].ins)][i + 1]

\* C15: in streaming mode a queue that was lazily initialised and is fed
\* slices of at least one row never fails the queue-length assertion; a
\* slice of h > 1 rows is accepted, the window is the last padding_h[i]+1
\* rows of queue+slice, so that the older rows of a slice longer than that
\* are dropped; the assertion fails only when queue and slice together
\* have fewer than padding_h[i]+1 rows.
C15_TallSlicesAcceptedAndTruncated ==
  \A s \in active :
    (/\ sess[s].aq0.some /\ sess[s].fed # <<>>
     /\ sess[s].fed[Len(sess[s].fed)] # <<>>) =>
      LET done == Len(sess[s].wins)
      IN /\ (sess[s].aq0 = EmptySlots(model)) => (sess[s].status = "ok")
         /\ \A i \in 0..(done - 1) :
              LET pad == padding_h(model, i)
                  window == sess[s].audio_queues.v[i + 1].v
                  slice == SliceAt(s, i)
              IN /\ Len(slice) = Len(sess[s].fed[Len(sess[s].fed)])
                 /\ Len(QueueBefore(s, i)) + Len(slice) >= pad + 1
                 /\ window = LastN(QueueBefore(s, i) \o slice, pad + 1)
                 /\ (Len(slice) >= pad + 1) =>
                      \A m \in 1..(pad + 1) :
                        window[m] = slice[Len(slice) - (pad + 1) + m]
         /\ (sess[s].status = "AssertionError") =>
              /\ sess[s].aq0 # EmptySlots(model)
              /\ Len(QueueBefore(s, done)) + Len(SliceAt(s, done))
                   < padding_h(model, done) + 1
         /\ (sess[s].status = "ok") =>
              Len(sess[s].outs[Len(sess[s].outs)]) = 1

\* the second call of a lazily initialised session brings a slice of MaxH
\* rows to two layers, one of them with causal context and fewer than
\* MaxH rows in its window, and returns
C15_Witness ==
  \E s \in active : \E i \in 0..(model.n_layers - 1) :
    /\ sess[s].aq0 = EmptySlots(model)
    /\ Len(sess[s].fed) = 2 /\ sess[s].status = "ok"
    /\ Len(sess[s].fed[2]) = MaxH /\ MaxH > 1
    /\ model.n_layers >= 2
    /\ padding_h(model, i) >= 1
    /\ Len(SliceAt(s, i)) > padding_h(model, i) + 1
    /\ Len(sess[s].audio_queues.v[i + 1].v) = padding_h(model, i) + 1

\* C15, the failing side: a caller-built queue too short for the slice
\* fails the assertion at the first layer it is short at
C15_ShortQueueAsserts ==
  \A s \in active :
    (/\ sess[s].aq0.some /\ sess[s].fed # <<>>
     /\ sess[s].fed[Len(sess[s].fed)] # <<>>
     /\ Len(sess[s].wins) < model.n_layers) =>
      /\ sess[s].status = "AssertionError"
      /\ Len(QueueBefore(s, Len(sess[s].wins))) + Len(SliceAt(s, Len(sess[s].wins)))
           < padding_h(model, Len(sess[s].wins)) + 1

====
